---------------------------- MODULE Spec2Model ----------------------------
(***************************************************************************)
(* Model of sudoku_A2_45.py: the Sudoku puzzle adapter (Sudoku.__init__,   *)
(* Sudoku.solve), the arc-consistency propagator                           *)
(* (Solver.make_arc_consistent, any_holds, new_to_do) and the              *)
(* domain-splitting search (Solver.solve_recursive_ds).                    *)
(*                                                                         *)
(* Scale.  The source fixes the box side at 3 (a 9x9 grid, digits 1..9).   *)
(* Its support check any_holds enumerates value combinations of a whole    *)
(* scope, which is exponential in the scope length, so the model runs the  *)
(* same code on the box side BoxSide = 2 (a 4x4 grid, digits 1..4, twelve  *)
(* all-different constraints).  Every literal of the source that depends   *)
(* on the box side is written in terms of BoxSide: 3 is BoxSide, 9 is      *)
(* Side, range(1, 10) is 1..Side and range(10) is 0..Side.                 *)
(*                                                                         *)
(* Python sets have an implementation-defined iteration order.  The model  *)
(* fixes one order per run, drawn in Init from Orders; it governs          *)
(* to_do.pop(), the iteration over csp.variables and list(dom).            *)
(***************************************************************************)
EXTENDS Integers, Sequences, FiniteSets, TLC

\* ----------------------------------------------------------------- bounds
\* Number of iteration orders of Python sets that are explored.
MaxOrder == 2
\* An input grid of the first family may differ from a prefix of the base
\* grid in one cell whose row-major index is below Window.
Window == 2
\* An input grid of the second family has at most MaxClues given cells.
MaxClues == 3
\* Where the order of the arcs is free, pop() hands out one of the first
\* PopWindow arcs of the queue.
PopWindow == 2

\* --------------------------------------------------------------- geometry
BoxSide == 2
Side == BoxSide * BoxSide
Index == 0 .. (Side - 1)
Digits == 1 .. Side
\* csp.variables: a variable is a position <<row, col>>
Variables == Index \X Index
\* The default value of the parameters const, domains and to_do.
None == 0

row_to_indices(row) == [k \in 1 .. Side |-> <<row, k - 1>>]

col_to_indices(col) == [k \in 1 .. Side |-> <<k - 1, col>>]

box_to_indices(box) ==
    LET start_row == (box \div BoxSide) * BoxSide
        start_col == (box % BoxSide) * BoxSide
    IN  [k \in 1 .. Side |->
            <<start_row + ((k - 1) \div BoxSide), start_col + ((k - 1) % BoxSide)>>]

\* Sudoku.constraints: rows, then columns, then boxes; a constraint is named
\* by its position in this list and is given by its scope (the condition is
\* is_all_unique for every one of them).
constraints ==
    [k \in 1 .. (3 * Side) |->
        IF k <= Side THEN row_to_indices(k - 1)
        ELSE IF k <= 2 * Side THEN col_to_indices(k - Side - 1)
        ELSE box_to_indices(k - 2 * Side - 1)]

Constraints == DOMAIN constraints

scope(const) == constraints[const]

\* The variables of each constraint's scope, as sets.
ScopeSets == [const \in Constraints |-> {constraints[const][k] : k \in 1 .. Side}]

ScopeSet(const) == ScopeSets[const]

\* CSP.var_to_const
var_to_const == [var \in Variables |-> {con \in Constraints : var \in ScopeSet(con)}]

\* ------------------------------------------------------------ set orders
Orders == 1 .. MaxOrder

RowMajor(var) == var[1] * Side + var[2]

ColMajor(var) == var[2] * Side + var[1]

\* Position of a variable in the iteration over a set of variables.
VarRank(o, var) ==
    CASE o % 3 = 1 -> RowMajor(var)
      [] o % 3 = 2 -> 0 - RowMajor(var)
      [] OTHER     -> ColMajor(var)

\* Position of a digit in the iteration over a set of digits.
ValRank(o, val) == IF o % 2 = 1 THEN val ELSE 0 - val

\* Position of an arc in the iteration over a set of arcs.
ArcRank(o, arc) ==
    CASE o % 3 = 1 -> arc[2] * Side * Side + RowMajor(arc[1])
      [] o % 3 = 2 -> 0 - (RowMajor(arc[1]) * 4 * Side + arc[2])
      [] OTHER     -> ColMajor(arc[1]) * 4 * Side + arc[2]

RECURSIVE VarSeq(_, _)
VarSeq(o, S) ==
    IF S = {} THEN <<>>
    ELSE LET x == CHOOSE v \in S : \A w \in S : VarRank(o, v) <= VarRank(o, w)
         IN  <<x>> \o VarSeq(o, S \ {x})

RECURSIVE ValSeq(_, _)
ValSeq(o, S) ==
    IF S = {} THEN <<>>
    ELSE LET x == CHOOSE v \in S : \A w \in S : ValRank(o, v) <= ValRank(o, w)
         IN  <<x>> \o ValSeq(o, S \ {x})

\* A domain is a Python list (as built by Sudoku.__init__) or a Python set
\* (as built by make_arc_consistent and partition_domain).
ListDom(S) == [list |-> TRUE, vals |-> S]

SetDom(S) == [list |-> FALSE, vals |-> S]

len(dom) == Cardinality(dom.vals)

\* Iteration over a domain: a list in its own (ascending) order, a set in
\* the order of the run.  ValLists tabulates the orders.
ValLists == [o \in Orders \cup {1} |-> [S \in SUBSET Digits |-> ValSeq(o, S)]]

Iter(o, dom) == IF dom.list THEN ValLists[1][dom.vals] ELSE ValLists[o][dom.vals]

\* new_domain != domains[var], for new_domain a set: a set never equals a list.
SetNeq(S, dom) == dom.list \/ S # dom.vals

\* F(e) with e evaluated once: a local variable of the code that is read
\* several times.
Bind(e, F(_)) == CHOOSE r \in {F(x) : x \in {e}} : TRUE

\* ------------------------------------------------------------- constraint
\* An assignment (a Python dict) is a function from its keys to values.
Put(env, key, val) == (key :> val) @@ env

\* is_all_unique comparing the positions where it should compare the values.
is_all_unique_positions(assignment, positions) ==
    \A i, j \in 1 .. Len(positions) :
        positions[i] # positions[j] => positions[i] # positions[j]

is_all_unique(assignment, positions) ==
    \A i, j \in 1 .. Len(positions) :
        positions[i] # positions[j] => assignment[positions[i]] # assignment[positions[j]]

\* holds that does not evaluate the condition.
holds_always(const, assignment) == TRUE

\* Constraint.holds: the condition of every constraint is is_all_unique.
holds(const, assignment) == is_all_unique(assignment, scope(const))

\* ------------------------------------------------------------- propagator
\* new_to_do with "nconst == const" for "nconst != const".
new_to_do_same(var, const) ==
    UNION {{<<nvar, nconst>> : nvar \in {n \in ScopeSet(nconst) : n # var}} :
              nconst \in {c \in var_to_const[var] : c = const}}

\* new_to_do without "if nvar != var".
new_to_do_self(var, const) ==
    UNION {{<<nvar, nconst>> : nvar \in ScopeSet(nconst)} :
              nconst \in {c \in var_to_const[var] : c # const}}

\* Solver.new_to_do; const = None excludes no constraint.
new_to_do(var, const) ==
    UNION {{<<nvar, nconst>> : nvar \in {n \in ScopeSet(nconst) : n # var}} :
              nconst \in {c \in var_to_const[var] : c # const}}

\* The default work queue of make_arc_consistent (to_do is None).
AllArcs == UNION {{<<var, const>> : var \in ScopeSet(const)} : const \in Constraints}

\* The least of a set of positions.
Least(ranks) == CHOOSE r \in ranks : \A q \in ranks : r <= q

\* Solver.select_arc: to_do.pop() hands out the first arc of the set's
\* iteration order (and removes it, see Revise).
select_arc(o, to_do) ==
    Bind(Bind({ArcRank(o, a) : a \in to_do}, LAMBDA ranks : Least(ranks)),
         LAMBDA least : CHOOSE a \in to_do : ArcRank(o, a) = least)

\* Solver.any_holds.  env is one dict shared by all the calls of one support
\* check, so a call returns its result together with env as it leaves it.
\* any_holds_for is the loop "for val in domains[var]" over the values that
\* are still to be tried.
RECURSIVE any_holds(_, _, _, _, _, _, _)
RECURSIVE any_holds_for(_, _, _, _, _, _, _, _)
any_holds(o, domains, const, env, other_vars, ind, assigned_vars) ==
    IF ind = Len(other_vars)
    THEN [ret |-> holds(const, env), env |-> env]
    ELSE any_holds_for(o, domains, const, env, other_vars, ind, assigned_vars,
                       Iter(o, domains[other_vars[ind + 1]]))

any_holds_for(o, domains, const, env, other_vars, ind, assigned_vars, vals) ==
    IF vals = <<>>
    THEN [ret |-> FALSE, env |-> env]
    ELSE LET var  == other_vars[ind + 1]
             env1 == Put(env, var, Head(vals))
         IN  IF is_all_unique(env1, <<var>> \o assigned_vars)
             THEN Bind(any_holds(o, domains, const, env1, other_vars, ind + 1,
                                 <<var>> \o assigned_vars),
                       LAMBDA r :
                           IF r.ret THEN r
                           ELSE any_holds_for(o, domains, const, r.env, other_vars,
                                              ind, assigned_vars, Tail(vals)))
             ELSE any_holds_for(o, domains, const, env1, other_vars, ind,
                                assigned_vars, Tail(vals))

\* The values bound when any_holds is called with ind: the value of env for
\* the arc's variable and for other_vars[0 : ind].
Bound(const, env, other_vars, ind) ==
    [x \in ScopeSet(const) \ {other_vars[k] : k \in (ind + 1) .. Len(other_vars)}
        |-> env[x]]

\* Solver.any_holds once more, with the calls it makes: calls holds, for
\* every recursive call of line 129, the values that were bound at the call.
RECURSIVE any_holds_calls(_, _, _, _, _, _, _)
RECURSIVE any_holds_calls_for(_, _, _, _, _, _, _, _, _)
any_holds_calls(o, domains, const, env, other_vars, ind, assigned_vars) ==
    IF ind = Len(other_vars)
    THEN [ret |-> holds(const, env), env |-> env, calls |-> {}]
    ELSE any_holds_calls_for(o, domains, const, env, other_vars, ind, assigned_vars,
                             Iter(o, domains[other_vars[ind + 1]]), {})

any_holds_calls_for(o, domains, const, env, other_vars, ind, assigned_vars, vals, calls) ==
    IF vals = <<>>
    THEN [ret |-> FALSE, env |-> env, calls |-> calls]
    ELSE LET var  == other_vars[ind + 1]
             env1 == Put(env, var, Head(vals))
         IN  IF is_all_unique(env1, <<var>> \o assigned_vars)
             THEN Bind(any_holds_calls(o, domains, const, env1, other_vars, ind + 1,
                                       <<var>> \o assigned_vars),
                       LAMBDA r :
                           LET made == calls \cup r.calls
                                          \cup {Bound(const, env1, other_vars, ind + 1)}
                           IN  IF r.ret
                               THEN [ret |-> TRUE, env |-> r.env, calls |-> made]
                               ELSE any_holds_calls_for(o, domains, const, r.env,
                                                        other_vars, ind, assigned_vars,
                                                        Tail(vals), made))
             ELSE any_holds_calls_for(o, domains, const, env1, other_vars, ind,
                                      assigned_vars, Tail(vals), calls)

\* other_vars of make_arc_consistent
OtherVars(var, const) == SelectSeq(scope(const), LAMBDA ov : ov # var)

\* Revise that tries every digit, not only those of the domain.
Revise_any_digit(o, domains, var, const) ==
    {val \in Digits :
        any_holds(o, domains, const, var :> val, OtherVars(var, const), 0, <<>>).ret}

\* Revise that leaves a variable with one value as it is.
Revise_skip_assigned(o, domains, var, const) ==
    {val \in domains[var].vals :
        \/ len(domains[var]) = 1
        \/ any_holds(o, domains, const, var :> val, OtherVars(var, const), 0, <<>>).ret}

\* Revise: the new_domain that make_arc_consistent computes for an arc.
Revise(o, domains, var, const) ==
    {val \in domains[var].vals :
        any_holds(o, domains, const, var :> val,
                  OtherVars(var, const), 0, <<>>).ret}

\* An iteration that replaces the domain and forgets the new arcs.
MacStep_no_requeue(o, domains, to_do) ==
    LET arc        == select_arc(o, to_do)
        var        == arc[1]
        const      == arc[2]
    IN  Bind(Revise(o, domains, var, const),
             LAMBDA new_domain :
                 IF SetNeq(new_domain, domains[var])
                 THEN [domains |-> [domains EXCEPT ![var] = SetDom(new_domain)],
                       to_do   |-> to_do \ {arc}]
                 ELSE [domains |-> domains, to_do |-> to_do \ {arc}])

\* An iteration that reads an arc of to_do and leaves it there.
MacStep_no_pop(o, domains, to_do) ==
    LET arc        == select_arc(o, to_do)
        var        == arc[1]
        const      == arc[2]
    IN  Bind(Revise(o, domains, var, const),
             LAMBDA new_domain :
                 IF SetNeq(new_domain, domains[var])
                 THEN [domains |-> [domains EXCEPT ![var] = SetDom(new_domain)],
                       to_do   |-> to_do \cup new_to_do(var, const)]
                 ELSE [domains |-> domains, to_do |-> to_do])

\* Lines 101-107 with "to_do = add_to_do" at line 107: the arcs that were
\* pending are dropped when a domain changes.
MacStepOn_drop(o, domains, to_do, arc) ==
    LET var        == arc[1]
        const      == arc[2]
        rest       == to_do \ {arc}
    IN  Bind(Revise(o, domains, var, const),
             LAMBDA new_domain :
                 IF SetNeq(new_domain, domains[var])
                 THEN [domains |-> [domains EXCEPT ![var] = SetDom(new_domain)],
                       to_do   |-> new_to_do(var, const) \ rest]
                 ELSE [domains |-> domains, to_do |-> rest])

\* Lines 101-107 for the arc that select_arc has handed out and removed:
\* the new state of the loop.
MacStepOn(o, domains, to_do, arc) ==
    LET var        == arc[1]
        const      == arc[2]
        rest       == to_do \ {arc}
    IN  Bind(Revise(o, domains, var, const),
             LAMBDA new_domain :
                 IF SetNeq(new_domain, domains[var])
                 THEN [domains |-> [domains EXCEPT ![var] = SetDom(new_domain)],
                       to_do   |-> rest \cup (new_to_do(var, const) \ rest)]
                 ELSE [domains |-> domains, to_do |-> rest])

\* One iteration of the while loop of make_arc_consistent on the state
\* (domains, to_do): the new state.
MacStep(o, domains, to_do) ==
    Bind(select_arc(o, to_do), LAMBDA arc : MacStepOn(o, domains, to_do, arc))

\* The parameter to_do: None, or a set of arcs.
NoSeed == [none |-> TRUE, arcs |-> {}]

Seed(arcs) == [none |-> FALSE, arcs |-> arcs]

\* Lines 94-97: the work queue make_arc_consistent starts from.
StartToDo(sd) == IF sd.none THEN AllArcs ELSE sd.arcs

\* No call of make_arc_consistent pops more arcs than this: the arcs it can
\* start with, and those of line 107, which are arcs of the three constraints
\* of var and are added when the domain of var changes: once when a list
\* becomes a set and once for each value that a set loses.
MaxPops == Cardinality(AllArcs) + Cardinality(Variables) * (Side + 1) * 3 * Side

\* Lines 99-107: at most n iterations of the while loop from the state s =
\* (domains, to_do): the first half of them, and then the rest from the state
\* m that the first half ends in.  The loop is over when to_do is empty.
RECURSIVE MacRun(_, _, _)
MacRun(o, n, s) ==
    IF s.to_do = {} THEN s
    ELSE IF n = 1 THEN MacStep(o, s.domains, s.to_do)
    ELSE CHOOSE r \in {MacRun(o, n - (n \div 2), m) : m \in {MacRun(o, n \div 2, s)}} : TRUE

\* Lines 99-108: the while loop of make_arc_consistent run to its end.
MacLoop(o, domains, to_do) ==
    Bind([domains |-> domains, to_do |-> to_do], LAMBDA s : MacRun(o, MaxPops, s).domains)

\* Solver.make_arc_consistent, one whole call; sd is its parameter to_do.
make_arc_consistent(o, orig_domains, sd) == MacLoop(o, orig_domains, StartToDo(sd))

\* --------------------------------------------------------------- searcher
\* The value None of the local var of solve_recursive_ds.
NoVar == <<>>

\* Solver.select_first: the first element of iterables, None if there is none.
select_first(iterables) == IF iterables = <<>> THEN NoVar ELSE Head(iterables)

MinLen(doms, vars) ==
    CHOOSE n \in {len(doms[vars[k]]) : k \in 1 .. Len(vars)} :
        \A k \in 1 .. Len(vars) : n <= len(doms[vars[k]])

\* select_most_constrained_var with "<" for "==" in its condition.
select_most_constrained_var_less(csp_domains, iterables) ==
    IF iterables = <<>> THEN [raise |-> FALSE, var |-> select_first(<<>>)]
    ELSE IF Tail(iterables) = <<>> THEN [raise |-> TRUE, var |-> NoVar]
    ELSE [raise |-> FALSE,
          var   |-> select_first(
                      IF len(csp_domains[Head(iterables)])
                            < MinLen(csp_domains, Tail(iterables))
                      THEN <<Head(iterables)>> ELSE <<>>)]

\* Solver.select_most_constrained_var.  iterables is a generator: the list
\* comprehension draws its first element, and the min(... for i in iterables)
\* of its condition then draws all the others, so the comprehension ends
\* after this one element; min() of no element raises ValueError.  The
\* lengths are those of self.csp.domains.
select_most_constrained_var(csp_domains, iterables) ==
    IF iterables = <<>> THEN [raise |-> FALSE, var |-> select_first(<<>>)]
    ELSE IF Tail(iterables) = <<>> THEN [raise |-> TRUE, var |-> NoVar]
    ELSE [raise |-> FALSE,
          var   |-> select_first(
                      IF len(csp_domains[Head(iterables)])
                            = MinLen(csp_domains, Tail(iterables))
                      THEN <<Head(iterables)>> ELSE <<>>)]

\* partition_domain with the second half cut one element too late.
partition_domain_drop(o, dom) ==
    LET split == len(dom) \div 2
        lst   == Iter(o, dom)
    IN  <<SetDom({lst[k] : k \in 1 .. split}),
          SetDom({lst[k] : k \in (split + 2) .. Len(lst)})>>

\* partition_domain with "dom2 = dom" for "dom2 = dom - dom1".
partition_domain_whole(o, dom) ==
    LET split == len(dom) \div 2
        lst   == Iter(o, dom)
        dom1  == {lst[k] : k \in 1 .. split}
    IN  <<SetDom(dom1), SetDom(dom.vals)>>

\* Solver.partition_domain; list(dom) is the iteration order of the set dom.
partition_domain(o, dom) ==
    LET split == len(dom) \div 2
        lst   == Iter(o, dom)
        dom1  == {lst[k] : k \in 1 .. split}
    IN  <<SetDom(dom1), SetDom(dom.vals \ dom1)>>

\* Solver.copy_with_assign
copy_with_assign(domains, var, new_domain) ==
    IF var # NoVar THEN [domains EXCEPT ![var] = new_domain] ELSE domains

\* ---------------------------------------------------------- puzzle adapter
\* Sudoku.__init__: self.domains
InitDomains(grid) ==
    [var \in Variables |->
        IF grid[var] # 0 THEN ListDom({grid[var]}) ELSE ListDom(Digits)]

\* The grid built with rows and columns exchanged.
AnsGrid_transposed(solutions) ==
    [pos \in (0 .. Side) \X (0 .. Side) |->
        IF pos \in DOMAIN solutions THEN solutions[<<pos[2], pos[1]>>] ELSE 0]

\* Sudoku.solve, lines 201-203: the grid built from the assignment.
AnsGrid(solutions) ==
    [pos \in (0 .. Side) \X (0 .. Side) |->
        IF pos \in DOMAIN solutions THEN solutions[pos] ELSE 0]

\* ------------------------------------------------------------ input grids
\* A solved grid.
BaseGrid ==
    [var \in Variables |->
        ((BoxSide * (var[1] % BoxSide) + (var[1] \div BoxSide) + var[2]) % Side) + 1]

\* The first k cells of the base grid are given and the others are unknown;
\* the cell of index i then holds d.
Grid(k, i, d) ==
    [var \in Variables |->
        IF RowMajor(var) = i THEN d
        ELSE IF RowMajor(var) < k THEN BaseGrid[var] ELSE 0]

PrefixGrids ==
    {Grid(k, i, d) : k \in 0 .. (Side * Side), i \in 0 .. (Window - 1), d \in 0 .. Side}

\* The four cells around the centre of the grid.
Centre == {BoxSide - 1, BoxSide} \X {BoxSide - 1, BoxSide}

\* Grids whose given cells are at most MaxClues of the centre cells, with
\* any digits.
ClueGrids ==
    {[var \in Variables |-> IF var \in Centre THEN f[var] ELSE 0] :
        f \in {g \in [Centre -> 0 .. Side] :
                  Cardinality({var \in Centre : g[var] # 0}) <= MaxClues}}

Puzzles == PrefixGrids \cup ClueGrids

\* ------------------------------------------------------------------ state
VARIABLES
    puzzle,        \* Sudoku.puzzle, the input grid
    order,         \* the iteration order of sets in this run
    csp,           \* Solver.csp.domains, the domain map stored in the CSP
    pc,            \* "mac": in the loop of make_arc_consistent;
                   \* "node": line 141, make_arc_consistent has returned;
                   \* "returned": line 201, the root solve_recursive_ds has returned;
                   \* "done": Sudoku.solve has returned or raised
    orig_domains,  \* parameter domains of the running solve_recursive_ds
    seed,          \* parameter to_do of the running solve_recursive_ds
    domains,       \* local domains of make_arc_consistent, then new_domains
    to_do,         \* local to_do of make_arc_consistent
    stack,         \* the calls of solve_recursive_ds that wait for their first half
    child,         \* the running call: 0 the root call, 1 a first half (line
                   \* 152, left of "or"), 2 a second half (right of "or")
    solutions,     \* the value returned by the root solve_recursive_ds
    ans,           \* Sudoku.ans
    outcome        \* how Sudoku.solve ended

vars == <<puzzle, order, csp, pc, orig_domains, seed, domains, to_do, stack,
          child, solutions, ans, outcome>>

\* What a call of solve_recursive_ds returns.
RetFalse == [kind |-> "False", dict |-> <<>>]

RetNone == [kind |-> "None", dict |-> <<>>]

RetDict(d) == [kind |-> "dict", dict |-> d]

Pending == [kind |-> "pending", dict |-> <<>>]

\* bool(value): a dict with keys is true, False and None are not.
Truthy(value) == value.kind = "dict"

Init ==
    /\ puzzle \in Puzzles
    /\ order \in Orders
    /\ csp = InitDomains(puzzle)
    /\ pc = "mac"
    /\ orig_domains = csp
    /\ seed = NoSeed
    /\ domains = csp
    /\ to_do = StartToDo(NoSeed)
    /\ stack = <<>>
    /\ child = 0
    /\ solutions = Pending
    /\ ans = puzzle
    /\ outcome = "running"

\* Lines 94-98 with the copies left out: the loop writes to the dict and
\* pops from the set that were passed in.
ParamsAfter_shared(orig, sd, s) ==
    [orig_domains |-> s.domains,
     seed         |-> IF sd.none THEN sd ELSE Seed(s.to_do)]

\* Lines 94-98: the dict orig_domains and the set to_do that were passed to
\* make_arc_consistent, after an iteration that left the loop in state s.
\* domains is orig_domains.copy() and to_do is to_do.copy() (or a new set),
\* so the writes of the loop do not reach them.
ParamsAfter(orig, sd, s) == [orig_domains |-> orig, seed |-> sd]

\* Lines 99-107: one iteration of the while loop of make_arc_consistent.
\* The objects passed to the running call have other names: the dict is
\* self.csp.domains in the root call (line 139) and new_dom1 of the caller
\* in a first half; the set is to_do of the caller (line 151), which the
\* caller passes to its second half as well.
Revise_step ==
    /\ pc = "mac"
    /\ to_do # {}
    /\ \E s \in {MacStep(order, domains, to_do)} :
       \E p \in {ParamsAfter(orig_domains, seed, s)} :
           /\ domains' = s.domains
           /\ to_do' = s.to_do
           /\ orig_domains' = p.orig_domains
           /\ seed' = p.seed
           /\ csp' = IF child = 0 THEN p.orig_domains ELSE csp
           /\ stack' = IF child = 1
                       THEN [stack EXCEPT ![1].new_dom1 = p.orig_domains,
                                          ![1].to_do = p.seed.arcs]
                       ELSE stack
    /\ UNCHANGED <<puzzle, order, pc, child, solutions, ans, outcome>>

\* Line 108: the loop has ended and make_arc_consistent returns domains.
MacReturn ==
    /\ pc = "mac"
    /\ to_do = {}
    /\ pc' = "node"
    /\ UNCHANGED <<puzzle, order, csp, orig_domains, seed, domains, to_do, stack,
                   child, solutions, ans, outcome>>

\* A call of solve_recursive_ds starts: line 140 enters make_arc_consistent.
Enter(doms, sd) ==
    /\ pc' = "mac"
    /\ orig_domains' = doms
    /\ seed' = sd
    /\ domains' = doms
    /\ to_do' = StartToDo(sd)

\* Return with "first and second" for "first or second" at line 152.
Return_and(value) ==
    IF ~Truthy(value) \/ stack = <<>>
    THEN /\ pc' = "returned"
         /\ solutions' = value
         /\ stack' = <<>>
         /\ UNCHANGED <<orig_domains, seed, domains, to_do, child>>
    ELSE /\ Enter(Head(stack).new_dom2, Seed(Head(stack).to_do))
         /\ stack' = Tail(stack)
         /\ child' = 2
         /\ UNCHANGED solutions

\* The running call returns value.  A true value is the result of every
\* waiting "first or second" (line 152) and so of the root call; otherwise
\* the innermost waiting call goes on with its second half, or, when no call
\* waits, value is the result of the root call.
Return(value) ==
    IF Truthy(value) \/ stack = <<>>
    THEN /\ pc' = "returned"
         /\ solutions' = value
         /\ stack' = <<>>
         /\ UNCHANGED <<orig_domains, seed, domains, to_do, child>>
    ELSE /\ Enter(Head(stack).new_dom2, Seed(Head(stack).to_do))
         /\ stack' = Tail(stack)
         /\ child' = 2
         /\ UNCHANGED solutions

AnyEmpty(doms) == ~(\A var \in Variables : len(doms[var]) # 0)

AllSingle(doms) == \A var \in Variables : len(doms[var]) = 1

\* Solver.select_first on a domain.
FirstOf(o, dom) == Head(Iter(o, dom))

\* Lines 141-142
FailLeaf ==
    /\ pc = "node"
    /\ AnyEmpty(domains)
    /\ Return(RetFalse)
    /\ UNCHANGED <<puzzle, order, csp, ans, outcome>>

\* Lines 143-144
SuccessLeaf ==
    /\ pc = "node"
    /\ ~AnyEmpty(domains)
    /\ AllSingle(domains)
    /\ Return(RetDict([var \in Variables |-> FirstOf(order, domains[var])]))
    /\ UNCHANGED <<puzzle, order, csp, ans, outcome>>

\* The generator handed to select_most_constrained_var at line 146.
Candidates(o, new_domains) ==
    VarSeq(o, {x \in Variables : len(new_domains[x]) > 1})

\* Lines 145-152
Branch ==
    /\ pc = "node"
    /\ ~AnyEmpty(domains)
    /\ ~AllSingle(domains)
    /\ LET sel == select_most_constrained_var(csp, Candidates(order, domains))
           var == sel.var
       IN  IF sel.raise
           THEN /\ pc' = "done"
                /\ outcome' = "ValueError"
                /\ UNCHANGED <<orig_domains, seed, domains, to_do, stack, child,
                               solutions>>
           ELSE IF var = NoVar
           THEN Return(RetNone) /\ UNCHANGED outcome
           ELSE LET doms     == partition_domain(order, domains[var])
                    new_dom1 == copy_with_assign(domains, var, doms[1])
                    new_dom2 == copy_with_assign(domains, var, doms[2])
                    arcs     == new_to_do(var, None)
                IN  /\ stack' = <<[var         |-> var,
                                   new_domains |-> domains,
                                   new_dom1    |-> new_dom1,
                                   new_dom2    |-> new_dom2,
                                   to_do       |-> arcs]>> \o stack
                    /\ Enter(new_dom1, Seed(arcs))
                    /\ child' = 1
                    /\ UNCHANGED <<solutions, outcome>>
    /\ UNCHANGED <<puzzle, order, csp, ans>>

\* Sudoku.solve, lines 201-206, after a search that returned an assignment.
SolveReturn ==
    /\ pc = "returned"
    /\ solutions.kind = "dict"
    /\ ans' = AnsGrid(solutions.dict)
    /\ outcome' = "grid"
    /\ pc' = "done"
    /\ UNCHANGED <<puzzle, order, csp, orig_domains, seed, domains, to_do, stack,
                   child, solutions>>

\* Sudoku.solve, lines 201-202, after a search that returned False or None:
\* solutions.items() raises AttributeError once self.ans has been reset.
SolveRaise ==
    /\ pc = "returned"
    /\ solutions.kind # "dict"
    /\ ans' = AnsGrid(<<>>)
    /\ outcome' = "AttributeError"
    /\ pc' = "done"
    /\ UNCHANGED <<puzzle, order, csp, orig_domains, seed, domains, to_do, stack,
                   child, solutions>>

Next ==
    \/ Revise_step
    \/ MacReturn
    \/ FailLeaf
    \/ SuccessLeaf
    \/ Branch
    \/ SolveReturn
    \/ SolveRaise

Spec == Init /\ [][Next]_vars

\* ----------------------------------------------------------------- claims
\* Every digit occurs in the scope of every constraint (so exactly once).
Solved(assignment) ==
    \A const \in Constraints :
        {assignment[var] : var \in ScopeSet(const)} = Digits

\* C1: an assignment returned by solve_recursive_ds gives every cell one
\* digit, and every row, column and box contains every digit exactly once,
\* also when it was reached after splits.
C1_SolutionValid ==
    solutions.kind = "dict" =>
        /\ DOMAIN solutions.dict = Variables
        /\ \A var \in Variables : solutions.dict[var] \in Digits
        /\ Solved(solutions.dict)

\* An assignment was returned by a call that a split started.
C1_Witness == pc = "returned" /\ solutions.kind = "dict" /\ ~seed.none

\* C2: when Sudoku.solve returns a grid, every pre-filled cell of the input
\* has its input value in it (so a filled valid grid comes back cell by cell).
C2_GivensKept ==
    outcome = "grid" => \A var \in Variables : puzzle[var] # 0 => ans[var] = puzzle[var]

\* A grid was returned for an input with pre-filled and with unknown cells.
C2_Witness ==
    /\ outcome = "grid"
    /\ \E var \in Variables : puzzle[var] # 0
    /\ \E var \in Variables : puzzle[var] = 0

\* The rows of a grid that hold some nonzero digit twice.
DupRows(grid) ==
    {r \in Index : \E c1, c2 \in Index :
        c1 # c2 /\ grid[<<r, c1>>] # 0 /\ grid[<<r, c1>>] = grid[<<r, c2>>]}

\* C3: for an input with a nonzero digit twice in a row, the first
\* propagation empties a domain of that row, the search never splits and
\* returns False.
C3_RowDuplicateFails ==
    DupRows(puzzle) # {} =>
        /\ pc = "node" =>
              \A r \in DupRows(puzzle) : \E c \in Index : len(domains[<<r, c>>]) = 0
        /\ seed.none /\ stack = <<>>
        /\ pc \in {"returned", "done"} => solutions.kind = "False"

\* The search has returned for an input with a digit twice in a row.
C3_Witness == DupRows(puzzle) # {} /\ pc = "returned"

\* All solved grids, built row by row; a row is a permutation of the digits.
Perms == {f \in [1 .. Side -> Digits] : \A i, j \in 1 .. Side : i # j => f[i] # f[j]}

\* Row p may follow the rows g: no digit twice in a column, nor in a box.
RowFits(g, p) ==
    \A r \in 1 .. Len(g) :
        /\ \A c \in 1 .. Side : g[r][c] # p[c]
        /\ (r - 1) \div BoxSide = Len(g) \div BoxSide =>
              \A c1, c2 \in 1 .. Side :
                  (c1 - 1) \div BoxSide = (c2 - 1) \div BoxSide => g[r][c1] # p[c2]

RECURSIVE RowsOfSolved(_)
RowsOfSolved(n) ==
    IF n = 0 THEN {<<>>}
    ELSE {Append(gp[1], gp[2]) :
            gp \in {x \in RowsOfSolved(n - 1) \X Perms : RowFits(x[1], x[2])}}

AllSolutions ==
    {[var \in Variables |-> g[var[1] + 1][var[2] + 1]] : g \in RowsOfSolved(Side)}

Within(g, doms) == \A var \in Variables : g[var] \in doms[var].vals

\* The complete assignments drawn from doms that satisfy all constraints.
SolutionsOf(doms) == {g \in AllSolutions : Within(g, doms)}

\* C4: the search is complete.  At every node each solution of the input is
\* still in the node's propagated domains or in the second half of a waiting
\* call, and the search ends without an assignment only for an input that
\* has no solution.
C4_Complete ==
    /\ pc = "node" =>
          \A g \in SolutionsOf(csp) :
              \/ Within(g, domains)
              \/ \E k \in 1 .. Len(stack) : Within(g, stack[k].new_dom2)
    /\ (pc \in {"returned", "done"} /\ solutions.kind # "dict") => SolutionsOf(csp) = {}

\* A call inside the search returns False although the input has solutions.
C4_Witness ==
    /\ pc = "node"
    /\ AnyEmpty(domains)
    /\ stack # <<>>
    /\ SolutionsOf(csp) # {}

\* C5: a domain map returned by make_arc_consistent, by the root call or by
\* a call made after a split, is a fixpoint: make_arc_consistent run on it
\* with the default arcs returns the same map.
C5_Fixpoint ==
    pc = "node" => make_arc_consistent(order, domains, NoSeed) = domains

\* A call made after a split has returned a map that it has changed.
C5_Witness == pc = "node" /\ ~seed.none /\ domains # orig_domains

Sub(doms1, doms2) == \A var \in Variables : doms1[var].vals \subseteq doms2[var].vals

\* C6: an iteration of the propagation leaves every domain a subset of what
\* it was, both halves of a split are subsets of the domains that are split,
\* and the domains of every call are subsets of the initial domains.
C6_Monotone ==
    [][/\ (pc = "mac" /\ pc' = "mac") => Sub(domains', domains)
       /\ (pc = "node" /\ Len(stack') > Len(stack)) =>
             /\ Sub(orig_domains', domains)
             /\ Sub(Head(stack').new_dom1, domains)
             /\ Sub(Head(stack').new_dom2, domains)
       /\ Sub(orig_domains', csp) /\ Sub(domains', orig_domains')]_vars

\* Propagation after a split has removed a value.
C6_Witness ==
    /\ pc = "mac"
    /\ ~seed.none
    /\ \E var \in Variables : domains[var].vals # orig_domains[var].vals

\* C7 (the claim as stated): the grid returned after a successful search
\* has Side rows of Side entries, every entry a digit.
C7_GridShape ==
    outcome = "grid" =>
        /\ DOMAIN ans = Variables
        /\ \A pos \in DOMAIN ans : ans[pos] \in Digits

\* C8 (the claim as stated): when the search finds no solution, Sudoku.solve
\* does not end in an exception.
C8_FailureReported ==
    solutions.kind = "False" => outcome # "AttributeError"

\* Both halves of the split of a waiting call are smaller than what was split.
StrictSplit(frame) ==
    /\ len(frame.new_dom1[frame.var]) < len(frame.new_domains[frame.var])
    /\ len(frame.new_dom2[frame.var]) < len(frame.new_domains[frame.var])

\* The work that is left.  Size counts the values of a domain map, and one
\* more for every domain that is still a list (its first revise replaces it
\* by a set).  Pending lists the sizes of the maps that are still to be
\* searched: the map of the running call and the second halves of the
\* waiting calls.
VarList == VarSeq(1, Variables)

RECURSIVE SizeFrom(_, _)
SizeFrom(doms, k) ==
    IF k > Len(VarList) THEN 0
    ELSE len(doms[VarList[k]]) + (IF doms[VarList[k]].list THEN 1 ELSE 0)
            + SizeFrom(doms, k + 1)

Size(doms) == SizeFrom(doms, 1)

PendingOf(p, doms, stk) ==
    IF p \in {"returned", "done"} THEN <<>>
    ELSE <<Size(doms)>> \o [k \in 1 .. Len(stk) |-> Size(stk[k].new_dom2)]

Count(sizes, n) == Cardinality({k \in 1 .. Len(sizes) : sizes[k] = n})

\* The multiset ordering: at the largest size where a and b differ, a has
\* fewer maps.
MultisetLess(a, b) ==
    \E k \in 1 .. Len(b) :
        /\ Count(a, b[k]) < Count(b, b[k])
        /\ \A j \in 1 .. Len(a) : a[j] > b[k] => Count(a, a[j]) = Count(b, a[j])
        /\ \A j \in 1 .. Len(b) : b[j] > b[k] => Count(a, b[j]) = Count(b, b[j])

Phase(p) == CASE p = "mac" -> 3 [] p = "node" -> 2 [] p = "returned" -> 1 [] OTHER -> 0

\* A step makes the work that is left smaller: fewer or smaller maps to
\* search, or the same maps and fewer arcs in the queue, or the same maps and
\* queue and a later place in the code.
WorkDecreases ==
    \E a \in {PendingOf(pc', domains', stack')} :
    \E b \in {PendingOf(pc, domains, stack)} :
        \/ MultisetLess(a, b)
        \/ a = b /\ Cardinality(to_do') < Cardinality(to_do)
        \/ a = b /\ to_do' = to_do /\ Phase(pc') < Phase(pc)

\* An iteration of the loop of make_arc_consistent changes the state, and
\* everywhere else the code moves on, so a run stops only when
\* Sudoku.solve has ended.
StepChanges ==
    /\ pc \in {"mac", "node", "returned", "done"}
    /\ (pc = "mac" /\ to_do # {}) =>
          MacStep(order, domains, to_do) # [domains |-> domains, to_do |-> to_do]

\* C9: termination.  Every step of make_arc_consistent and of
\* solve_recursive_ds makes the work that is left smaller in a well-founded
\* order and no state short of the end is stuck, so every call of
\* make_arc_consistent empties its queue and solve_recursive_ds returns; and
\* every split gives both children a strictly smaller domain of the chosen
\* variable.
C9_Terminates ==
    /\ [][WorkDecreases]_vars
    /\ []StepChanges
    /\ [](\A k \in 1 .. Len(stack) : StrictSplit(stack[k]))

\* The search on the grid without given cells has returned.
C9_Witness == pc = "returned" /\ \A var \in Variables : puzzle[var] = 0

\* C10: at every split the chosen variable has, in the propagated domain map
\* new_domains, more than one value and no variable with more than one value
\* has fewer values.
C10_MostConstrained ==
    \A k \in 1 .. Len(stack) :
        LET frame == stack[k]
            n     == len(frame.new_domains[frame.var])
        IN  /\ n > 1
            /\ \A x \in Variables :
                  len(frame.new_domains[x]) > 1 => n <= len(frame.new_domains[x])

\* C11: a call of solve_recursive_ds whose propagation has returned is in
\* exactly one of three cases: some domain is empty (it returns False), all
\* domains have one value (it returns a full assignment), or at least two
\* variables have more than one value and the selection yields one of them
\* without raising.  No call returns None and the selection never raises.
C11_Trichotomy ==
    /\ outcome # "ValueError"
    /\ solutions.kind \in {"pending", "False", "dict"}
    /\ solutions.kind = "dict" => DOMAIN solutions.dict = Variables
    /\ pc = "node" =>
          LET cands == Candidates(order, domains)
              sel   == select_most_constrained_var(csp, cands)
          IN  /\ ~(AnyEmpty(domains) /\ AllSingle(domains))
              /\ (~AnyEmpty(domains) /\ ~AllSingle(domains)) =>
                    /\ Len(cands) >= 2
                    /\ ~sel.raise
                    /\ sel.var \in Variables
                    /\ len(domains[sel.var]) > 1

\* A call below the root is about to split.
C11_Witness ==
    /\ pc = "node"
    /\ stack # <<>>
    /\ ~AnyEmpty(domains)
    /\ ~AllSingle(domains)

\* The two halves are a partition of D into non-empty sets, the first of
\* floor(|D| / 2) values.
IsSplit(D, dom1, dom2) ==
    /\ dom1 # {}
    /\ dom2 # {}
    /\ dom1 \cap dom2 = {}
    /\ dom1 \cup dom2 = D
    /\ Cardinality(dom1) = Cardinality(D) \div 2

\* C12: at every split the chosen domain D has at least two values, the two
\* halves are non-empty, disjoint, have union D and the first has
\* floor(|D| / 2) values; both child maps are the propagated map of the
\* parent on every other variable.  The domain that is split is a set (the
\* set difference of partition_domain is not defined on a list), and
\* partition_domain splits every set of at least two values in this way.
C12_Partition ==
    /\ \A k \in 1 .. Len(stack) :
          LET frame == stack[k]
              var   == frame.var
              D     == frame.new_domains[var].vals
          IN  /\ Cardinality(D) >= 2
              /\ ~frame.new_domains[var].list
              /\ IsSplit(D, frame.new_dom1[var].vals, frame.new_dom2[var].vals)
              /\ \A x \in Variables \ {var} :
                    /\ frame.new_dom1[x] = frame.new_domains[x]
                    /\ frame.new_dom2[x] = frame.new_domains[x]
    /\ \A D \in SUBSET Digits :
          Cardinality(D) >= 2 =>
              LET doms == partition_domain(order, SetDom(D))
              IN  IsSplit(D, doms[1].vals, doms[2].vals)

\* A domain of three values has been split below another split.
C12_Witness ==
    /\ Len(stack) >= 2
    /\ len(Head(stack).new_domains[Head(stack).var]) = 3

\* The second half of the innermost waiting call starts in this step.
SecondStarts ==
    /\ stack # <<>>
    /\ stack' = Tail(stack)
    /\ pc' = "mac"
    /\ child' = 2
    /\ orig_domains' = Head(stack).new_dom2
    /\ seed' = Seed(Head(stack).to_do)

\* C13: the halves of a split are explored in order.  A split starts its
\* first half.  A second half starts only in a step in which the call that
\* runs returns, it is the second half of the innermost waiting call, and it
\* starts if and only if the returning call found no solution; an
\* assignment found below a waiting call is the result of the search at
\* once, and no second half is started after it.
C13_BranchOrder ==
    [][/\ Len(stack') > Len(stack) =>
             /\ stack' = <<Head(stack')>> \o stack
             /\ child' = 1
             /\ pc' = "mac"
             /\ orig_domains' = Head(stack').new_dom1
       /\ (child' = 2 /\ child # 2) \/ Len(stack') < Len(stack) =>
             /\ pc = "node"
             /\ stack # <<>>
       /\ (pc = "node" /\ stack # <<>> /\ AnyEmpty(domains)) => SecondStarts
       /\ (pc = "node" /\ stack # <<>> /\ ~AnyEmpty(domains) /\ AllSingle(domains)) =>
             /\ pc' = "returned"
             /\ stack' = <<>>
             /\ solutions' = RetDict([var \in Variables |-> FirstOf(order, domains[var])])
       /\ SecondStarts => (pc = "node" /\ AnyEmpty(domains))
      ]_vars

\* A second half runs below a waiting call: its first half found no solution.
C13_Witness ==
    /\ child = 2
    /\ stack # <<>>
    /\ pc = "mac"

\* The value x of var has a support on const: a choice of one value for
\* every other variable of the scope, from its domain, such that x and the
\* chosen values are pairwise distinct.
Supported(doms, var, const, x) ==
    LET others == ScopeSet(const) \ {var}
    IN  \E f \in [others -> Digits] :
            /\ \A ov \in others : f[ov] \in doms[ov].vals /\ f[ov] # x
            /\ \A ov1, ov2 \in others : ov1 # ov2 => f[ov1] # f[ov2]

ExactRevise(doms, var, const) ==
    {x \in doms[var].vals : Supported(doms, var, const, x)}

\* C14: the new domain that the loop computes for the arc it has taken are
\* the supported values of the old one, and any_holds answers for each value
\* whether it is supported; so it is for every arc on the map that
\* make_arc_consistent returns.
C14_ReviseExact ==
    /\ (pc = "mac" /\ to_do # {}) =>
          LET arc == select_arc(order, to_do)
          IN  Revise(order, domains, arc[1], arc[2])
                 = ExactRevise(domains, arc[1], arc[2])
    /\ pc = "node" =>
          \A arc \in AllArcs :
              Revise(order, domains, arc[1], arc[2])
                 = ExactRevise(domains, arc[1], arc[2])

\* Below a split the loop has taken an arc whose revise removes some values
\* of a domain and keeps others.
C14_Witness ==
    /\ pc = "mac"
    /\ child # 0
    /\ to_do # {}
    /\ LET arc == select_arc(order, to_do)
           new == ExactRevise(domains, arc[1], arc[2])
       IN  new # {} /\ new # domains[arc[1]].vals

\* ------------------------------------------------- every order of the arcs
\* A second specification for the order in which to_do.pop() hands out the
\* arcs.  The root call runs as in Spec up to its split; in the first half
\* of the split the pop() of select_arc hands out any of the first PopWindow
\* arcs of the iteration order, and the run ends where this call of
\* make_arc_consistent returns.

\* The first n arcs of the set S in the iteration order o.
RECURSIVE FirstArcs(_, _, _)
FirstArcs(o, S, n) ==
    IF n = 0 \/ S = {} THEN {}
    ELSE LET arc == select_arc(o, S)
         IN  {arc} \cup FirstArcs(o, S \ {arc}, n - 1)

\* Lines 99-107 with a pop() that is free among the first arcs.
AnyArc_step ==
    /\ pc = "mac"
    /\ child = 1
    /\ \E arc \in FirstArcs(order, to_do, PopWindow) :
       \E s \in {MacStepOn(order, domains, to_do, arc)} :
           /\ domains' = s.domains
           /\ to_do' = s.to_do
    /\ UNCHANGED <<puzzle, order, csp, pc, orig_domains, seed, stack, child,
                   solutions, ans, outcome>>

RootStep == child = 0 /\ (Revise_step \/ MacReturn \/ Branch)

HalfReturn == child = 1 /\ MacReturn

OrderNext ==
    \/ RootStep
    \/ AnyArc_step
    \/ HalfReturn

\* The input grids of this specification: the prefixes of at least two cells
\* of the base grid.
OrderPuzzles == {Grid(k, 0, BaseGrid[<<0, 0>>]) : k \in 2 .. (Side * Side)}

OrderInit == Init /\ puzzle \in OrderPuzzles

OrderSpec == OrderInit /\ [][OrderNext]_vars

\* C15: whichever of the pending arcs pop() hands out, make_arc_consistent
\* returns the same map for the same input map and seed arcs: the map that
\* the loop returns with a free choice of arcs is the map that it returns in
\* each of the iteration orders, and so is the map that the root call gets.
C15_OrderIndependent ==
    pc = "node" =>
        \A o \in Orders : domains = make_arc_consistent(o, orig_domains, seed)

\* A call whose arcs were taken in a free order returns, having removed
\* values from several domains.
C15_Witness ==
    /\ pc = "node"
    /\ child = 1
    /\ Cardinality({var \in Variables : domains[var] # orig_domains[var]}) >= 3

\* The arcs (n, c2) with c2 a constraint on v other than c and n another
\* variable of c2.
NeighbourArcs(v, c) ==
    {a \in Variables \X Constraints :
        /\ v \in ScopeSet(a[2])
        /\ a[2] # c
        /\ a[1] \in ScopeSet(a[2])
        /\ a[1] # v}

\* C16: an iteration of the loop that changes the domain of v on the arc
\* (v, c) leaves in the queue the arcs that were pending, without (v, c), and
\* the arcs (n, c2) with c2 another constraint on v and n another variable
\* of c2, and no others; it adds no arc on c and no arc on v.  The variable
\* of every arc of the queue, and of every seed, is in the scope of the
\* arc's constraint.
C16_Requeue ==
    /\ [](/\ \A a \in to_do : a[1] \in ScopeSet(a[2])
          /\ \A a \in seed.arcs : a[1] \in ScopeSet(a[2])
          /\ \A k \in 1 .. Len(stack) :
                \A a \in stack[k].to_do : a[1] \in ScopeSet(a[2]))
    /\ [][(pc = "mac" /\ to_do # {}) =>
             LET arc == select_arc(order, to_do)
                 v   == arc[1]
                 c   == arc[2]
             IN  /\ \A x \in Variables \ {v} : domains'[x] = domains[x]
                 /\ domains'[v].vals # domains[v].vals =>
                       /\ to_do' = (to_do \ {arc}) \cup NeighbourArcs(v, c)
                       /\ \A a \in to_do' \ to_do : a[1] # v /\ a[2] # c
         ]_vars

\* Below a split the queue holds an arc that is not a seed of the call: a
\* changed domain has put it there.
C16_Witness ==
    /\ pc = "mac"
    /\ child # 0
    /\ \E a \in to_do : a \notin seed.arcs

\* C17 (the claim as stated): an iteration of the loop that removes no value
\* from the domain of its arc's variable leaves the domain map as it was and
\* only takes the arc out of the queue, in the first revise of a variable too.
C17_NoChangeNoArcs ==
    [][(pc = "mac" /\ to_do # {}) =>
          LET arc == select_arc(order, to_do)
          IN  domains'[arc[1]].vals = domains[arc[1]].vals =>
                 /\ domains' = domains
                 /\ to_do' = to_do \ {arc}
      ]_vars

\* The map and the seed arcs of the second half of a waiting call, as line
\* 148-151 built them from the propagated map of the call.
BuiltSecond(frame) ==
    [domains |-> copy_with_assign(frame.new_domains, frame.var,
                                  partition_domain(order, frame.new_domains[frame.var])[2]),
     to_do   |-> new_to_do(frame.var, None)]

\* C18: the loop of make_arc_consistent changes neither the map nor the seed
\* arcs that were passed to the running call, nor the map stored in the CSP,
\* nor anything that a waiting call holds; the map of the CSP is the one the
\* adapter built for ever; what a waiting call holds for its second half is
\* what it built at the split, up to the step in which the second half
\* starts on exactly this map and these seed arcs.
C18_BranchIndependent ==
    /\ [](csp = InitDomains(puzzle))
    /\ [](\A k \in 1 .. Len(stack) :
             /\ stack[k].new_dom2 = BuiltSecond(stack[k]).domains
             /\ stack[k].to_do = BuiltSecond(stack[k]).to_do)
    /\ [][/\ pc = "mac" => UNCHANGED <<orig_domains, seed, csp, stack>>
          /\ (pc = "node" /\ pc' = "mac" /\ Len(stack') < Len(stack)) =>
                /\ orig_domains' = BuiltSecond(Head(stack)).domains
                /\ seed' = Seed(BuiltSecond(Head(stack)).to_do)
                /\ domains' = orig_domains'
                /\ to_do' = seed'.arcs
         ]_vars

\* The second half of a split has been propagated, and the propagation
\* removed values in its own copy of the map.
C18_Witness ==
    /\ child = 2
    /\ pc = "node"
    /\ domains # orig_domains

\* No two variables have the same value in bound.
Distinct(bound) ==
    \A x, y \in DOMAIN bound : x # y => bound[x] # bound[y]

\* C19 (the claim as stated): in the support check of the arc that the loop
\* takes, every recursive call of any_holds is made with pairwise distinct
\* bound values, the candidate value of the arc's variable among them.
C19_PrunesEarly ==
    (pc = "mac" /\ to_do # {}) =>
        LET arc == select_arc(order, to_do)
        IN  \A val \in domains[arc[1]].vals :
                \A bound \in any_holds_calls(order, domains, arc[2], arc[1] :> val,
                                             OtherVars(arc[1], arc[2]), 0, <<>>).calls :
                    Distinct(bound)

====
